---- MODULE Spec2Model ----
(***************************************************************************)
(* A model of the video relay service: the yt-dlp metadata cache and       *)
(* fetcher (package ytdlp), the format selector (SelectFormats), the       *)
(* ffmpeg argument planner and runner (package streamer) and the request   *)
(* handler (videoHandler).                                                 *)
(*                                                                         *)
(* Go strings that the code inspects (codec ids, protocols, the prober's   *)
(* stderr) are sequences of one-character strings, so that HasPrefix,      *)
(* Contains and ToLower are computed as the strings package computes them. *)
(* A string the code only passes on or concatenates is the sequence of the *)
(* pieces it was put together from.                                        *)
(* Bitrates (float64 in the code) are fixed-point numbers counted in       *)
(* halves of a unit, so that int(x) truncates something.                   *)
(* Time is counted in minutes and observed every ClockStep minutes.        *)
(* The output of ffmpeg is counted in chunks: what one write hands over.   *)
(***************************************************************************)
EXTENDS Integers, Sequences, FiniteSets, TLC

VARIABLES
    now,        \* the monotonic clock read by time.Now / time.Since
    infoCache,  \* the sync.Map: a function from the stored keys to cachedInfo
    pc,         \* per request: where its GetVideoInfo call stands
    videoURL,   \* per request: the key of its current call
    entry,      \* per request: the value its Load returned
    res,        \* per request: what its call returned (and how it got there)
    nfetch,     \* number of Info documents the prober has produced so far
    sweep,      \* the cleanup goroutine of init(): its position in Range
    written,    \* history: every (key, cachedInfo) a Store has written
    lastStored, \* history: per key, the cachedInfo of the latest Store
    dirty,      \* history: per request, a Store hit its key since its Load
    lastProbe,  \* history: the prober run of the step just taken, if it was one
    info,       \* SelectFormats: the *Info it is called with
    quality,    \* SelectFormats: the Quality it is called with
    videos,     \* SelectFormats: its sorted slice of video candidates
    audios,     \* SelectFormats: its sorted slice of audio candidates
    video,      \* SelectFormats: the returned video *Format
    audio,      \* SelectFormats: the returned audio *Format
    planIn,     \* buildFfmpegArgs: the arguments it is called with
    args,       \* buildFfmpegArgs: the []string it returns
    docs,       \* the heap of Info values: docs[p] is what the *Info p points to
    handler,    \* videoHandler: the locals of the request being served
    stream,     \* StreamVideo: its position, the ffmpeg process and its pipes
    lastPick    \* history: the SelectFormats call of the step just taken

cacheVars == <<now, infoCache, pc, videoURL, entry, res, nfetch, sweep,
               written, lastStored, dirty, lastProbe>>

selVars == <<info, quality, videos, audios, video, audio>>

planVars == <<planIn, args>>

serveVars == <<docs, handler, stream, lastPick>>

vars == <<cacheVars, selVars, planVars, serveVars>>

-----------------------------------------------------------------------------
(* Bounds of the model.                                                    *)

NumReq == 2
MaxFetch == 2
MaxTime == 15
ClockStep == 5
MaxFormats == 3
MaxOut == 1
MaxErr == 1

(* Program constants.                                                      *)

cacheTTL == 10

-----------------------------------------------------------------------------
(* package strings                                                         *)

Upper == <<"A", "B", "C", "D", "E", "F", "G", "H", "I", "J", "K", "L", "M",
           "N", "O", "P", "Q", "R", "S", "T", "U", "V", "W", "X", "Y", "Z">>
Lower == <<"a", "b", "c", "d", "e", "f", "g", "h", "i", "j", "k", "l", "m",
           "n", "o", "p", "q", "r", "s", "t", "u", "v", "w", "x", "y", "z">>

LowerChar(c) ==
    IF \E i \in 1..26 : Upper[i] = c
    THEN Lower[CHOOSE i \in 1..26 : Upper[i] = c]
    ELSE c

ToLower(s) == [i \in 1..Len(s) |-> LowerChar(s[i])]

HasPrefix(s, prefix) ==
    /\ Len(s) >= Len(prefix)
    /\ SubSeq(s, 1, Len(prefix)) = prefix

Contains(s, substr) ==
    \E i \in 0..(Len(s) - Len(substr)) : SubSeq(s, i + 1, i + Len(substr)) = substr

-----------------------------------------------------------------------------
(* The metadata cache and GetVideoInfo.                                    *)

Reqs == 1..NumReq
URLs == {"u1"}

\* The zero cachedInfo, what a failed Load leaves in val.
ZeroEntry == [info |-> 0, timestamp |-> 0]

\* cachedInfo{info: &info, timestamp: time.Now()}; an *Info is the number of
\* the fetch that allocated it (0 is nil).
cachedInfo(ptr, timestamp) == [info |-> ptr, timestamp |-> timestamp]

\* sync.Map: Load, Store and Delete are each one atomic step on one key.
Load(m, key) ==
    IF key \in DOMAIN m THEN [val |-> m[key], ok |-> TRUE]
                        ELSE [val |-> ZeroEntry, ok |-> FALSE]

StoreTorn(m, key, value) ==
    [k \in DOMAIN m \cup {key} |->
        IF k = key
        THEN IF key \in DOMAIN m
             THEN [value EXCEPT !.timestamp = m[key].timestamp]
             ELSE value
        ELSE m[k]]

Store(m, key, value) ==
    [k \in DOMAIN m \cup {key} |-> IF k = key THEN value ELSE m[k]]

Delete(m, key) == [k \in DOMAIN m \ {key} |-> m[k]]

\* time.Since(t)
Since(t) == now - t

\* GetVideoInfo's test of a loaded entry: time.Since(entry.timestamp) < cacheTTL
IsFreshInclusive(e) == Since(e.timestamp) <= cacheTTL

IsFresh(e) == Since(e.timestamp) < cacheTTL

\* The sweep's test of a visited entry: time.Since(entry.timestamp) > cacheTTL
IsExpired(e) == Since(e.timestamp) > cacheTTL

\* What yt-dlp can write to stderr before exiting abnormally.
VideoUnavailable == <<"V", "i", "d", "e", "o", " ", "u", "n", "a", "v", "a", "i", "l", "a", "b", "l", "e">>
HTTPError404 == <<"H", "T", "T", "P", " ", "E", "r", "r", "o", "r", " ", "4", "0", "4">>

StderrSamples ==
    { <<"E", "R", "R", "O", "R", ":", " ", "V", "i", "d", "e", "o", " ", "u", "n", "a", "v", "a", "i", "l", "a", "b", "l", "e">>,
      <<"H", "T", "T", "P", " ", "E", "r", "r", "o", "r", " ", "4", "0", "4", ":", " ", "N", "o", "t", " ", "F", "o", "u", "n", "d">>,
      <<"H", "T", "T", "P", " ", "E", "r", "r", "o", "r", " ", "4", "0", "3">>,
      <<"v", "i", "d", "e", "o", " ", "u", "n", "a", "v", "a", "i", "l", "a", "b", "l", "e">>,
      <<>> }

\* The outcomes of cmd.Output() followed by json.Unmarshal:
\*   exit   the process ran and exited abnormally (*exec.ExitError, with stderr)
\*   other  any other error of cmd.Output (not started, i/o error)
\*   ok     exit status 0; parses tells whether the output unmarshals
ProbeOutcomes ==
    [kind : {"exit"}, stderr : StderrSamples, parses : {FALSE}]
      \cup [kind : {"other"}, stderr : {<<>>}, parses : {FALSE}]
      \cup [kind : {"ok"}, stderr : {<<>>}, parses : BOOLEAN]

NoOutcome == [kind |-> "none", stderr |-> <<>>, parses |-> FALSE]

ErrNil == "nil"
ErrVideoNotFound == "video not found"
ErrFetchFailed == "failed to run yt-dlp"
ErrParseFailed == "failed to unmarshal JSON"

\* The error GetVideoInfo returns for a prober outcome (lines 92-107).
ClassifyNoNotFound(o) ==
    IF o.kind # "ok" THEN ErrFetchFailed
    ELSE IF ~o.parses THEN ErrParseFailed
    ELSE ErrNil

Classify(o) ==
    IF o.kind # "ok"
    THEN IF /\ o.kind = "exit"
            /\ \/ Contains(o.stderr, VideoUnavailable)
               \/ Contains(o.stderr, HTTPError404)
         THEN ErrVideoNotFound
         ELSE ErrFetchFailed
    ELSE IF ~o.parses THEN ErrParseFailed
    ELSE ErrNil

\* Whether control reaches infoCache.Store (line 109): only past both
\* error returns.
ReachesStoreAlways(err) == TRUE

ReachesStore(err) == err = ErrNil

NoRes == [hit |-> FALSE, info |-> 0, err |-> ErrNil, at |-> 0, ts |-> 0,
          probed |-> FALSE, wrote |-> FALSE]

NoProbe == [req |-> 0, out |-> NoOutcome]

\* A request enters GetVideoInfo(ctx, u) and executes infoCache.Load(u).
LoadStep(r) ==
    /\ pc[r] = "idle"
    /\ \E u \in URLs :
         LET l == Load(infoCache, u) IN
           /\ videoURL' = [videoURL EXCEPT ![r] = u]
           /\ entry' = [entry EXCEPT ![r] = l.val]
           /\ pc' = [pc EXCEPT ![r] = IF l.ok THEN "check" ELSE "probe"]
    /\ res' = [res EXCEPT ![r] = NoRes]
    /\ dirty' = [dirty EXCEPT ![r] = FALSE]
    /\ lastProbe' = NoProbe
    /\ UNCHANGED <<now, infoCache, nfetch, sweep, written, lastStored>>

\* The entry was found: serve it if it is younger than cacheTTL.
CheckStep(r) ==
    /\ pc[r] = "check"
    /\ IF IsFresh(entry[r])
       THEN /\ res' = [res EXCEPT ![r] = [NoRes EXCEPT !.hit = TRUE,
                                            !.info = entry[r].info,
                                            !.at = now,
                                            !.ts = entry[r].timestamp]]
            /\ pc' = [pc EXCEPT ![r] = "done"]
       ELSE /\ res' = res
            /\ pc' = [pc EXCEPT ![r] = "delete"]
    /\ entry' = [entry EXCEPT ![r] = ZeroEntry]
    /\ lastProbe' = NoProbe
    /\ UNCHANGED <<now, infoCache, videoURL, nfetch, sweep, written,
                   lastStored, dirty>>

\* infoCache.Delete(videoURL) of line 87: removes whatever the key holds now.
DeleteStep(r) ==
    /\ pc[r] = "delete"
    /\ infoCache' = Delete(infoCache, videoURL[r])
    /\ pc' = [pc EXCEPT ![r] = "probe"]
    /\ lastProbe' = NoProbe
    /\ UNCHANGED <<now, videoURL, entry, res, nfetch, sweep, written,
                   lastStored, dirty>>

\* yt-dlp runs, its output is unmarshalled, the outcome is classified.
ProbeStep(r) ==
    /\ pc[r] = "probe"
    /\ \E o \in ProbeOutcomes :
         LET err == Classify(o) IN
           /\ err = ErrNil => nfetch < MaxFetch
           /\ nfetch' = IF err = ErrNil THEN nfetch + 1 ELSE nfetch
           /\ res' = [res EXCEPT ![r] = [@ EXCEPT !.probed = TRUE,
                                           !.err = err,
                                           !.info = IF err = ErrNil
                                                    THEN nfetch + 1 ELSE 0]]
           /\ pc' = [pc EXCEPT ![r] = IF ReachesStore(err) THEN "store"
                                                           ELSE "done"]
           /\ lastProbe' = [req |-> r, out |-> o]
    /\ UNCHANGED <<now, infoCache, videoURL, entry, sweep, written,
                   lastStored, dirty>>

\* infoCache.Store(videoURL, cachedInfo{info: &info, timestamp: time.Now()})
StoreStep(r) ==
    /\ pc[r] = "store"
    /\ LET value == cachedInfo(res[r].info, now) IN
         /\ infoCache' = Store(infoCache, videoURL[r], value)
         /\ written' = written \cup {[key |-> videoURL[r], value |-> value]}
         /\ lastStored' = [lastStored EXCEPT ![videoURL[r]] = value]
    /\ dirty' = [q \in Reqs |->
                   IF q # r /\ videoURL[q] = videoURL[r] /\ pc[q] # "idle"
                   THEN TRUE ELSE dirty[q]]
    /\ res' = [res EXCEPT ![r] = [@ EXCEPT !.wrote = TRUE]]
    /\ pc' = [pc EXCEPT ![r] = "done"]
    /\ lastProbe' = NoProbe
    /\ UNCHANGED <<now, videoURL, entry, nfetch, sweep>>

\* The call has returned; the request goroutine ends and a new request may
\* take its place.
ReturnStep(r) ==
    /\ pc[r] = "done"
    /\ pc' = [pc EXCEPT ![r] = "idle"]
    /\ videoURL' = [videoURL EXCEPT ![r] = "u1"]
    /\ entry' = [entry EXCEPT ![r] = ZeroEntry]
    /\ res' = [res EXCEPT ![r] = NoRes]
    /\ dirty' = [dirty EXCEPT ![r] = FALSE]
    /\ lastProbe' = NoProbe
    /\ UNCHANGED <<now, infoCache, nfetch, sweep, written, lastStored>>

\* The cleanup goroutine: a tick arrives and infoCache.Range begins.
SweepIdle == [todo |-> {}, del |-> {}]

SweepTick ==
    /\ sweep = SweepIdle
    /\ infoCache # <<>>
    /\ sweep' = [todo |-> DOMAIN infoCache, del |-> {}]
    /\ lastProbe' = NoProbe
    /\ UNCHANGED <<now, infoCache, pc, videoURL, entry, res, nfetch, written,
                   lastStored, dirty>>

\* Range hands one key and its value to the callback, which tests its age.
SweepVisit ==
    /\ sweep.del = {}
    /\ \E k \in sweep.todo :
         sweep' = [todo |-> sweep.todo \ {k},
                   del |-> IF k \in DOMAIN infoCache /\ IsExpired(infoCache[k])
                           THEN {k} ELSE {}]
    /\ lastProbe' = NoProbe
    /\ UNCHANGED <<now, infoCache, pc, videoURL, entry, res, nfetch, written,
                   lastStored, dirty>>

\* infoCache.Delete(key) of line 39: removes whatever the key holds now.
SweepDelete ==
    /\ sweep.del # {}
    /\ \E k \in sweep.del : infoCache' = Delete(infoCache, k)
    /\ sweep' = [sweep EXCEPT !.del = {}]
    /\ lastProbe' = NoProbe
    /\ UNCHANGED <<now, pc, videoURL, entry, res, nfetch, written, lastStored,
                   dirty>>

\* Time passes.
Tick ==
    /\ now + ClockStep <= MaxTime
    /\ now' = now + ClockStep
    /\ lastProbe' = NoProbe
    /\ UNCHANGED <<infoCache, pc, videoURL, entry, res, nfetch, sweep,
                   written, lastStored, dirty>>

-----------------------------------------------------------------------------
(* SelectFormats.                                                          *)

none == <<"n", "o", "n", "e">>
avc1 == <<"a", "v", "c", "1">>
http == <<"h", "t", "t", "p">>
m3u8 == <<"m", "3", "u", "8">>

\* Codec ids and protocols as yt-dlp reports them.
avc1_64 == <<"a", "v", "c", "1", ".", "6", "4">>
vp9 == <<"v", "p", "9">>
mp4a_40 == <<"m", "p", "4", "a", ".", "4", "0">>
https == <<"h", "t", "t", "p", "s">>
m3u8_native == <<"m", "3", "u", "8", "_", "n", "a", "t", "i", "v", "e">>

QualityLow == "low"
QualityMedium == "medium"
QualityHigh == "high"
Qualities == {QualityLow, QualityMedium, QualityHigh, "best"}

\* A Format without its identity: FormatID and URL are given by the place
\* the format takes in Info.Formats.  TBR and ABR count halves of a unit.
Fmt(vcodec, acodec, width, height, tbr, abr, protocol) ==
    [VCodec |-> vcodec, ACodec |-> acodec, Width |-> width, Height |-> height,
     TBR |-> tbr, ABR |-> abr, Protocol |-> protocol]

\* The formats a metadata document is drawn from: video-only formats at
\* three heights, with bitrates a half unit apart at 720; audio-only formats
\* with and without abr, over both kinds of protocol; muxed formats; a format
\* that has a video codec but no width; a format with neither stream.
FormatPool ==
    { Fmt(avc1_64, none, 1920, 1080, 2000, 0, https),
      Fmt(vp9, none, 1920, 1080, 2000, 0, https),
      Fmt(vp9, none, 640, 360, 2000, 0, https),
      Fmt(vp9, none, 1280, 720, 2002, 0, https) }
      \cup { Fmt(avc1_64, none, 1280, 720, t, 0, https) : t \in {2000, 2001, 2002} }
      \cup { Fmt(none, mp4a_40, 0, 0, abr, abr, https) : abr \in {256, 257} }
      \cup { Fmt(none, mp4a_40, 0, 0, 257, 257, m3u8_native),
             Fmt(none, mp4a_40, 0, 0, 320, 0, m3u8_native),
             Fmt(avc1_64, mp4a_40, 640, 360, 1144, 0, https),
             Fmt(avc1_64, mp4a_40, 640, 360, 1144, 256, m3u8_native),
             Fmt(vp9, mp4a_40, 0, 0, 600, 400, https),
             Fmt(none, none, 0, 0, 0, 0, https) }

WithID(f, i) ==
    [FormatID |-> i, URL |-> i, VCodec |-> f.VCodec, ACodec |-> f.ACodec,
     Width |-> f.Width, Height |-> f.Height, TBR |-> f.TBR, ABR |-> f.ABR,
     Protocol |-> f.Protocol]

\* A nil *Format.
NilFormat == [ok |-> FALSE, f |-> WithID(Fmt(<<>>, <<>>, 0, 0, 0, 0, <<>>), 0)]
Ptr(f) == [ok |-> TRUE, f |-> f]

\* isVideo := f.VCodec != "none" && f.Width > 0
IsVideoAnyWidth(f) == f.VCodec # none

IsVideo(f) == f.VCodec # none /\ f.Width > 0

\* isAudio := f.ACodec != "none"
IsAudio(f) == f.ACodec # none

RECURSIVE Filter(_, _)
Filter(fs, keep) ==
    IF fs = <<>> THEN <<>>
    ELSE LET rest == Filter(Tail(fs), keep) IN
         IF (keep = "video" /\ IsVideo(Head(fs)))
               \/ (keep = "audio" /\ IsAudio(Head(fs)))
         THEN <<Head(fs)>> \o rest
         ELSE rest

\* int(x) of a float64 that holds d halves: truncation toward zero.
IntOfHalves(d) == IF d >= 0 THEN d \div 2 ELSE -((-d) \div 2)

\* The comparison function of the video sort.
CmpVideoNoH264(a, b) ==
    IF a.Height # b.Height THEN b.Height - a.Height
    ELSE IntOfHalves(b.TBR - a.TBR)

CmpVideo(a, b) ==
    IF a.Height # b.Height THEN b.Height - a.Height
    ELSE LET aH264 == HasPrefix(a.VCodec, avc1)
             bH264 == HasPrefix(b.VCodec, avc1)
         IN  IF aH264 # bH264
             THEN (IF aH264 THEN -1 ELSE 1)
             ELSE IntOfHalves(b.TBR - a.TBR)

\* The comparison function of the audio sort.
CmpAudio(a, b) ==
    LET aAudioOnly == a.VCodec = none
        bAudioOnly == b.VCodec = none
        aHttps == HasPrefix(a.Protocol, http) /\ ~Contains(a.Protocol, m3u8)
        bHttps == HasPrefix(b.Protocol, http) /\ ~Contains(b.Protocol, m3u8)
        aRate == IF a.ABR = 0 THEN a.TBR ELSE a.ABR
        bRate == IF b.ABR = 0 THEN b.TBR ELSE b.ABR
    IN  IF aAudioOnly # bAudioOnly
        THEN (IF aAudioOnly THEN -1 ELSE 1)
        ELSE IF aHttps # bHttps
        THEN (IF aHttps THEN -1 ELSE 1)
        ELSE IntOfHalves(bRate - aRate)

Cmp(which, a, b) == IF which = "video" THEN CmpVideo(a, b) ELSE CmpAudio(a, b)

\* slices.SortFunc on a slice of at most 12 elements is an insertion sort:
\*   for i := 1; i < n; i++ {
\*       for j := i; j > 0 && cmp(data[j], data[j-1]) < 0; j-- { swap(j, j-1) } }
Swap(data, i, j) ==
    [k \in 1..Len(data) |->
        IF k = i THEN data[j] ELSE IF k = j THEN data[i] ELSE data[k]]

RECURSIVE SiftDown(_, _, _)
SiftDown(data, j, which) ==
    IF j > 1 /\ Cmp(which, data[j], data[j - 1]) < 0
    THEN SiftDown(Swap(data, j, j - 1), j - 1, which)
    ELSE data

RECURSIVE SortFrom(_, _, _)
SortFrom(data, i, which) ==
    IF i > Len(data) THEN data
    ELSE SortFrom(SiftDown(data, i, which), i + 1, which)

SortFunc(data, which) == SortFrom(data, 2, which)

abs(x) == IF x < 0 THEN -x ELSE x

\* findClosestResolution: the index of the first candidate at the least
\* distance from targetHeight (a later one replaces it only when closer).
RECURSIVE ClosestFrom(_, _, _, _)
ClosestFrom(vs, targetHeight, i, best) ==
    IF i > Len(vs) THEN best
    ELSE IF abs(vs[i].Height - targetHeight) < abs(vs[best].Height - targetHeight)
    THEN ClosestFrom(vs, targetHeight, i + 1, i)
    ELSE ClosestFrom(vs, targetHeight, i + 1, best)

findClosestResolution(vs, targetHeight) ==
    vs[ClosestFrom(vs, targetHeight, 1, 1)]

\* The switch on quality that picks the video.
SelectVideo(vs, q) ==
    IF Len(vs) = 0 THEN NilFormat
    ELSE IF q = QualityHigh THEN Ptr(vs[1])
    ELSE IF q = QualityMedium THEN Ptr(findClosestResolution(vs, 720))
    ELSE IF q = QualityLow THEN Ptr(findClosestResolution(vs, 360))
    ELSE Ptr(vs[1])

\* A fallback that does not look at the video's audio codec.
SelectAudioAnyVideo(as, q, v) ==
    IF Len(as) > 0
    THEN IF q = QualityLow THEN Ptr(as[Len(as)]) ELSE Ptr(as[1])
    ELSE v

\* The choice of the audio, with the fallback to the chosen video.
SelectAudio(as, q, v) ==
    IF Len(as) > 0
    THEN IF q = QualityLow THEN Ptr(as[Len(as)]) ELSE Ptr(as[1])
    ELSE IF v.ok /\ v.f.ACodec # none THEN v ELSE NilFormat

SelectFormats(i, q) ==
    LET vs == SortFunc(Filter(i.Formats, "video"), "video")
        as == SortFunc(Filter(i.Formats, "audio"), "audio")
        v == SelectVideo(vs, q)
    IN  [videos |-> vs, audios |-> as, video |-> v,
         audio |-> SelectAudio(as, q, v)]

\* info.Formats when SelectFormats returns: the function filters into two
\* slices of its own (make, then append copies each Format) and sorts those;
\* it assigns to no element of info.Formats.
FormatsAfterSelectInPlace(i, q) == SortFunc(i.Formats, "video")

FormatsAfterSelect(i, q) == i.Formats

NoInfo == [Formats |-> <<>>]

SelIdle ==
    /\ info = NoInfo
    /\ quality = ""
    /\ videos = <<>>
    /\ audios = <<>>
    /\ video = NilFormat
    /\ audio = NilFormat

\* json.Unmarshal decodes one more format of the prober's document.
DecodeFormat ==
    /\ quality = ""
    /\ Len(info.Formats) < MaxFormats
    /\ \E f \in FormatPool :
         info' = [Formats |-> Append(info.Formats,
                                     WithID(f, Len(info.Formats) + 1))]
    /\ UNCHANGED <<quality, videos, audios, video, audio>>

\* video, audio := SelectFormats(info, q)
SelectStep ==
    /\ quality = ""
    /\ \E q \in Qualities :
         LET sel == SelectFormats(info, q) IN
           /\ quality' = q
           /\ videos' = sel.videos
           /\ audios' = sel.audios
           /\ video' = sel.video
           /\ audio' = sel.audio
    /\ UNCHANGED info

-----------------------------------------------------------------------------
(* buildFfmpegArgs and argsFromHeaders.                                    *)

h264 == <<"h", "2", "6", "4">>
hevc == <<"h", "e", "v", "c">>
hvc1 == <<"h", "v", "c", "1">>
hev1 == <<"h", "e", "v", "1">>
h265 == <<"h", "2", "6", "5">>
mp4a == <<"m", "p", "4", "a">>
aac == <<"a", "a", "c">>
UserAgent == <<"U", "s", "e", "r", "-", "A", "g", "e", "n", "t">>

\* A string literal of the code.
Lit(x) == <<x>>

\* strings.EqualFold on ASCII strings.
EqualFold(a, b) == ToLower(a) = ToLower(b)

\* strings.Join(elems, sep)
RECURSIVE Join(_, _)
Join(elems, sep) ==
    IF elems = <<>> THEN <<>>
    ELSE IF Len(elems) = 1 THEN elems[1]
    ELSE elems[1] \o sep \o Join(Tail(elems), sep)

\* The loop of argsFromHeaders over the map, in the order range yields its
\* entries: the -user_agent arguments it appends.
RECURSIVE UserAgentArgs(_)
UserAgentArgs(headers) ==
    IF headers = <<>> THEN <<>>
    ELSE IF EqualFold(Head(headers).k, UserAgent)
    THEN <<Lit("-user_agent"), Head(headers).v>> \o UserAgentArgs(Tail(headers))
    ELSE UserAgentArgs(Tail(headers))

\* The same loop: headerList, one "k: v" line per other header.
RECURSIVE HeaderList(_)
HeaderList(headers) ==
    IF headers = <<>> THEN <<>>
    ELSE IF EqualFold(Head(headers).k, UserAgent)
    THEN HeaderList(Tail(headers))
    ELSE <<Head(headers).k \o Lit(": ") \o Head(headers).v>>
             \o HeaderList(Tail(headers))

argsFromHeaders(headers) ==
    LET headerList == HeaderList(headers) IN
    UserAgentArgs(headers)
      \o (IF Len(headerList) > 0
          THEN <<Lit("-headers"), Join(headerList, Lit("\r\n")) \o Lit("\r\n")>>
          ELSE <<>>)

\* The video codec settings.
VideoCodecArgsCaseSensitive(vCodec) ==
    IF \E sig \in {avc1, h264, hevc, hvc1, hev1, h265} : Contains(vCodec, sig)
    THEN <<Lit("-c:v"), Lit("copy")>>
    ELSE <<Lit("-c:v"), Lit("libx264"), Lit("-preset"), Lit("ultrafast"),
           Lit("-g"), Lit("60"), Lit("-keyint_min"), Lit("60"),
           Lit("-sc_threshold"), Lit("0")>>

VideoCodecArgs(vCodec) ==
    LET vCodecLower == ToLower(vCodec) IN
    IF \/ Contains(vCodecLower, avc1) \/ Contains(vCodecLower, h264)
       \/ Contains(vCodecLower, hevc) \/ Contains(vCodecLower, hvc1)
       \/ Contains(vCodecLower, hev1) \/ Contains(vCodecLower, h265)
    THEN <<Lit("-c:v"), Lit("copy")>>
    ELSE <<Lit("-c:v"), Lit("libx264"), Lit("-preset"), Lit("ultrafast"),
           Lit("-g"), Lit("60"), Lit("-keyint_min"), Lit("60"),
           Lit("-sc_threshold"), Lit("0")>>

\* The audio codec settings.
AudioCodecArgs(aCodec) ==
    IF Contains(ToLower(aCodec), mp4a) \/ Contains(ToLower(aCodec), aac)
    THEN <<Lit("-c:a"), Lit("copy")>>
    ELSE <<Lit("-c:a"), Lit("aac")>>

\* A second input whenever an audio URL is given.
buildFfmpegArgsAnyAudio(vURL, videoHeaders, audioURL, audioHeaders, vCodec, aCodec) ==
    LET hasSeparateAudio == audioURL # <<>> IN
    <<Lit("-hide_banner"), Lit("-loglevel"), Lit("info"), Lit("-threads"), Lit("0")>>
      \o argsFromHeaders(videoHeaders)
      \o <<Lit("-i"), vURL>>
      \o (IF hasSeparateAudio
          THEN argsFromHeaders(audioHeaders) \o <<Lit("-i"), audioURL>>
          ELSE <<>>)
      \o (IF hasSeparateAudio
          THEN <<Lit("-map"), Lit("0:v:0"), Lit("-map"), Lit("1:a:0")>>
          ELSE <<Lit("-map"), Lit("0:v:0"), Lit("-map"), Lit("0:a:0?")>>)
      \o VideoCodecArgs(vCodec)
      \o AudioCodecArgs(aCodec)
      \o <<Lit("-f"), Lit("mp4"), Lit("-movflags"),
           Lit("frag_keyframe+empty_moov"), Lit("pipe:1")>>

buildFfmpegArgs(vURL, videoHeaders, audioURL, audioHeaders, vCodec, aCodec) ==
    LET hasSeparateAudio == audioURL # <<>> /\ audioURL # vURL IN
    <<Lit("-hide_banner"), Lit("-loglevel"), Lit("info"), Lit("-threads"), Lit("0")>>
      \o argsFromHeaders(videoHeaders)
      \o <<Lit("-i"), vURL>>
      \o (IF hasSeparateAudio
          THEN argsFromHeaders(audioHeaders) \o <<Lit("-i"), audioURL>>
          ELSE <<>>)
      \o (IF hasSeparateAudio
          THEN <<Lit("-map"), Lit("0:v:0"), Lit("-map"), Lit("1:a:0")>>
          ELSE <<Lit("-map"), Lit("0:v:0"), Lit("-map"), Lit("0:a:0?")>>)
      \o VideoCodecArgs(vCodec)
      \o AudioCodecArgs(aCodec)
      \o <<Lit("-f"), Lit("mp4"), Lit("-movflags"),
           Lit("frag_keyframe+empty_moov"), Lit("pipe:1")>>

\* Video codec ids a caller passes: what yt-dlp reports in vcodec.
VCodecSamples ==
    { avc1_64, vp9, h264, h265,
      <<"A", "V", "C", "1", ".", "4", "D">>,
      <<"H", "2", "6", "4">>,
      <<"h", "e", "v", "1", ".", "1">>,
      <<"h", "v", "c", "1", ".", "2">>,
      <<"H", "E", "V", "C">>,
      <<"d", "v", "h", "e", ".", "h", "e", "v", "c">>,
      <<"a", "v", "0", "1">>,
      <<"a", "v", "c">>,
      none }

\* Audio codec ids a caller passes; the empty string when there is no audio.
ACodecSamples ==
    { mp4a_40, aac, none, <<>>,
      <<"A", "A", "C">>,
      <<"o", "p", "u", "s">>,
      <<"e", "c", "-", "3">>,
      <<"m", "p", "3">> }

Header(k, v) == [k |-> k, v |-> v]

\* Header maps, each in the orders range can yield its entries.
HeaderSamples ==
    LET ua == Header(UserAgent, Lit("Mozilla"))
        lc == Header(ToLower(UserAgent), Lit("curl"))
        rf == Header(Lit("Referer"), Lit("https://site/"))
        ck == Header(Lit("Cookie"), Lit("a=b"))
    IN  { <<>>, <<ua>>, <<lc>>, <<rf>>, <<ua, rf>>, <<rf, ua>>,
          <<rf, ck>>, <<ck, rf>>, <<lc, ck, rf>>, <<ck, lc, rf>>, <<rf, ck, lc>> }

PlanInputs ==
    [videoURL : {Lit("https://cdn/v")},
     videoHeaders : HeaderSamples,
     audioURL : {<<>>, Lit("https://cdn/v"), Lit("https://cdn/a")},
     audioHeaders : HeaderSamples,
     vCodec : VCodecSamples,
     aCodec : ACodecSamples]

NoPlan == [videoURL |-> <<>>, videoHeaders |-> <<>>, audioURL |-> <<>>,
           audioHeaders |-> <<>>, vCodec |-> <<>>, aCodec |-> <<>>]

PlanIdle ==
    /\ planIn = NoPlan
    /\ args = <<>>

\* args := buildFfmpegArgs(videoURL, videoHeaders, audioURL, audioHeaders,
\*                         vCodec, aCodec)
PlanStep ==
    /\ args = <<>>
    /\ \E in \in PlanInputs :
         /\ planIn' = in
         /\ args' = buildFfmpegArgs(in.videoURL, in.videoHeaders, in.audioURL,
                                    in.audioHeaders, in.vCodec, in.aCodec)

-----------------------------------------------------------------------------
(* videoHandler and StreamVideo.                                           *)

StatusOK == 200
StatusBadRequest == 400
StatusNotFound == 404
StatusInternalServerError == 500

\* The request slot of the cache model that the served request runs in.
H == 1

\* Documents the prober's output unmarshals to, each with its id: two video
\* heights beside an
\* audio-only format; no video-capable format; a single muxed format; a
\* single video-only format.
DocSamples ==
    { [ID |-> "a",
       Formats |-> << WithID(Fmt(avc1_64, none, 1280, 720, 2000, 0, https), 1),
                      WithID(Fmt(vp9, none, 1920, 1080, 2000, 0, https), 2),
                      WithID(Fmt(none, mp4a_40, 0, 0, 256, 256, https), 3) >>],
      [ID |-> "b",
       Formats |-> << WithID(Fmt(none, mp4a_40, 0, 0, 256, 256, https), 1),
                      WithID(Fmt(vp9, mp4a_40, 0, 0, 600, 400, https), 2) >>],
      [ID |-> "c",
       Formats |-> << WithID(Fmt(avc1_64, mp4a_40, 640, 360, 1144, 0, https), 1) >>],
      [ID |-> "d",
       Formats |-> << WithID(Fmt(vp9, none, 640, 360, 2000, 0, https), 1) >>] }

\* The values of the "url" and "quality" query parameters.
UrlParams == {"", "u1"}
QualityParams == {"", "low", "medium", "high"}

\* The switch on qParam: high if not specified or invalid.
QualityOf(qParam) ==
    IF qParam = "low" THEN QualityLow
    ELSE IF qParam = "medium" THEN QualityMedium
    ELSE IF qParam = "high" THEN QualityHigh
    ELSE QualityHigh

\* The handler before a request: no status written, context not cancelled.
\*   info    the *Info GetVideoInfo returned (0 is nil), err its error
\*   prober  the yt-dlp process of this request, out how it ended
\*   nProber, nPipeline  how many processes the request has spawned
HandlerIdle ==
    [pc |-> "idle", url |-> "", quality |-> "", status |-> 0,
     cancelled |-> FALSE, info |-> 0, err |-> ErrNil, prober |-> "none",
     out |-> NoOutcome, nProber |-> 0, nPipeline |-> 0]

\* StreamVideo before a call.
\*   proc       the ffmpeg process; exitOK its exit status being zero,
\*              killed its having been killed on cancellation
\*   outWritten chunks ffmpeg wrote to stdout, outPipe those not yet copied,
\*              forwarded those written to the ResponseWriter
\*   errWritten chunks ffmpeg wrote to stderr, errPipe those not yet read,
\*              errRead those the stderr goroutine has read
\*   errClosed  the read end of the stderr pipe has been closed
\*   drainer    the stderr goroutine
StreamIdle ==
    [pc |-> "idle", err |-> FALSE, proc |-> "none", exitOK |-> FALSE,
     killed |-> FALSE,
     outWritten |-> 0, outPipe |-> 0, forwarded |-> 0,
     errWritten |-> 0, errPipe |-> 0, errRead |-> 0,
     errClosed |-> FALSE, drainer |-> "none"]

NoPick == [req |-> 0, ptr |-> 0, quality |-> "", video |-> NilFormat,
           audio |-> NilFormat]

ServeIdle ==
    /\ docs = <<>>
    /\ handler = HandlerIdle
    /\ stream = StreamIdle
    /\ lastPick = NoPick

\* Lines 27-35: the request arrives; without a url it is refused.
HandlerEnter ==
    /\ handler.pc = "idle"
    /\ \E u \in UrlParams, qParam \in QualityParams :
         handler' = [HandlerIdle EXCEPT
                        !.url = u,
                        !.quality = QualityOf(qParam),
                        !.pc = IF u = "" THEN "end" ELSE "info",
                        !.status = IF u = "" THEN StatusBadRequest ELSE 0]
    /\ UNCHANGED <<cacheVars, selVars, planVars, docs, stream, lastPick>>

\* r.Context() is cancelled: the client has gone away.
CtxCancel ==
    /\ handler.pc \in {"info", "select", "stream"}
    /\ ~handler.cancelled
    /\ handler' = [handler EXCEPT !.cancelled = TRUE]
    /\ UNCHANGED <<cacheVars, selVars, planVars, docs, stream, lastPick>>

\* GetVideoInfo(ctx, url), line 54: the lookup, the age test, the delete.
ServeLoad ==
    /\ handler.pc = "info"
    /\ LoadStep(H)
    /\ videoURL'[H] = handler.url
    /\ UNCHANGED <<selVars, planVars, serveVars>>

ServeCheck ==
    /\ handler.pc = "info"
    /\ CheckStep(H)
    /\ UNCHANGED <<selVars, planVars, serveVars>>

ServeDelete ==
    /\ handler.pc = "info"
    /\ DeleteStep(H)
    /\ UNCHANGED <<selVars, planVars, serveVars>>

\* cmd.Output() starts yt-dlp; exec's Start refuses when ctx is done already.
ProberStart ==
    /\ handler.pc = "info"
    /\ pc[H] = "probe"
    /\ handler.prober = "none"
    /\ handler' = IF handler.cancelled
                  THEN [handler EXCEPT !.prober = "refused"]
                  ELSE [handler EXCEPT !.prober = "running",
                                       !.nProber = @ + 1]
    /\ UNCHANGED <<cacheVars, selVars, planVars, docs, stream, lastPick>>

\* exec.CommandContext: once ctx is done the process is killed.
ProberKill ==
    /\ handler.prober = "running"
    /\ handler.cancelled
    /\ handler' = [handler EXCEPT !.prober = "killed"]
    /\ UNCHANGED <<cacheVars, selVars, planVars, docs, stream, lastPick>>

\* cmd.Output() returns and the outcome is classified; a killed process
\* yields an error, a refused start an error that is no *exec.ExitError; a
\* document that unmarshals is allocated.
ServeProbe ==
    /\ handler.pc = "info"
    /\ handler.prober \in {"running", "killed", "refused"}
    /\ ProbeStep(H)
    /\ handler.prober = "killed" => lastProbe'.out.kind # "ok"
    /\ handler.prober = "refused" => lastProbe'.out.kind = "other"
    /\ IF res'[H].err = ErrNil
       THEN \E d \in DocSamples : docs' = Append(docs, d)
       ELSE docs' = docs
    /\ handler' = [handler EXCEPT !.prober = "exited",
                                  !.out = lastProbe'.out]
    /\ UNCHANGED <<selVars, planVars, stream, lastPick>>

ServeStore ==
    /\ handler.pc = "info"
    /\ StoreStep(H)
    /\ UNCHANGED <<selVars, planVars, serveVars>>

\* The status videoHandler answers an error of GetVideoInfo with.
InfoStatusAlwaysServerError(err) == StatusInternalServerError

InfoStatus(err) ==
    IF err = ErrVideoNotFound THEN StatusNotFound
    ELSE StatusInternalServerError

\* Lines 54-63: GetVideoInfo has returned.
HandlerInfo ==
    /\ handler.pc = "info"
    /\ pc[H] = "done"
    /\ ReturnStep(H)
    /\ IF res[H].err # ErrNil
       THEN /\ handler' = [handler EXCEPT !.pc = "end",
                                          !.err = res[H].err,
                                          !.status = InfoStatus(res[H].err)]
            /\ info' = info
       ELSE /\ handler' = [handler EXCEPT !.pc = "select",
                                          !.info = res[H].info]
            /\ info' = docs[res[H].info]
    /\ UNCHANGED <<quality, videos, audios, video, audio, planVars, docs,
                   stream, lastPick>>

\* Lines 66-70: SelectFormats(info, quality); without a video, not found.
ServeSelect ==
    /\ handler.pc = "select"
    /\ SelectStep
    /\ quality' = handler.quality
    /\ docs' = [docs EXCEPT ![handler.info].Formats =
                   FormatsAfterSelect(info, handler.quality)]
    /\ handler' = IF video'.ok
                  THEN [handler EXCEPT !.pc = "stream"]
                  ELSE [handler EXCEPT !.pc = "end",
                                       !.status = StatusNotFound]
    /\ UNCHANGED <<cacheVars, planVars, stream, lastPick>>

\* The URL string of a format.
UrlOf(f) == Lit(ToString(f.URL))

\* Lines 73-92 and StreamVideo lines 30-51: the audio URL and codec are taken
\* from the audio pick, the arguments are built, and ffmpeg is started with
\* its stdout wired to the ResponseWriter and its stderr to a pipe.  Start
\* refuses when ctx is done already; StderrPipe or Start may fail.  Once the
\* process runs, the stderr goroutine is started.
StreamStart ==
    /\ handler.pc = "stream"
    /\ stream.pc = "idle"
    /\ LET in == [videoURL |-> UrlOf(video.f),
                  videoHeaders |-> <<>>,
                  audioURL |-> IF audio.ok THEN UrlOf(audio.f) ELSE <<>>,
                  audioHeaders |-> <<>>,
                  vCodec |-> video.f.VCodec,
                  aCodec |-> IF audio.ok THEN audio.f.ACodec ELSE <<>>]
       IN  /\ planIn' = in
           /\ args' = buildFfmpegArgs(in.videoURL, in.videoHeaders,
                                      in.audioURL, in.audioHeaders,
                                      in.vCodec, in.aCodec)
    /\ \E started \in BOOLEAN :
         /\ handler.cancelled => ~started
         /\ IF started
            THEN /\ stream' = [StreamIdle EXCEPT !.pc = "wait",
                                                 !.proc = "running",
                                                 !.drainer = "reading"]
                 /\ handler' = [handler EXCEPT !.nPipeline = @ + 1]
            ELSE /\ stream' = [StreamIdle EXCEPT !.pc = "returned",
                                                 !.err = TRUE]
                 /\ handler' = handler
    /\ UNCHANGED <<cacheVars, selVars, docs, lastPick>>

\* ffmpeg writes a chunk of the container to its stdout.
FfmpegWriteOut ==
    /\ stream.proc = "running"
    /\ stream.outWritten < MaxOut
    /\ stream' = [stream EXCEPT !.outWritten = @ + 1, !.outPipe = @ + 1]
    /\ UNCHANGED <<cacheVars, selVars, planVars, docs, handler, lastPick>>

\* ffmpeg writes a chunk of diagnostics to its stderr.
FfmpegWriteErr ==
    /\ stream.proc = "running"
    /\ stream.errWritten < MaxErr
    /\ stream' = [stream EXCEPT !.errWritten = @ + 1, !.errPipe = @ + 1]
    /\ UNCHANGED <<cacheVars, selVars, planVars, docs, handler, lastPick>>

\* ffmpeg exits on its own, with status zero or not.
FfmpegExit ==
    /\ stream.proc = "running"
    /\ \E ok \in BOOLEAN :
         stream' = [stream EXCEPT !.proc = "exited", !.exitOK = ok]
    /\ UNCHANGED <<cacheVars, selVars, planVars, docs, handler, lastPick>>

\* A context that does not reach the process.
StreamKillNever == FALSE /\ UNCHANGED vars

\* exec.CommandContext: once ctx is done the process is killed.
StreamKill ==
    /\ stream.proc = "running"
    /\ handler.cancelled
    /\ stream' = [stream EXCEPT !.proc = "exited", !.exitOK = FALSE,
                                !.killed = TRUE]
    /\ UNCHANGED <<cacheVars, selVars, planVars, docs, handler, lastPick>>

\* monitoringWriter.Write: a chunk of stdout goes to the ResponseWriter,
\* whose first Write sends the header with status 200.
Forward ==
    /\ stream.pc = "wait"
    /\ stream.outPipe > 0
    /\ stream' = [stream EXCEPT !.outPipe = @ - 1, !.forwarded = @ + 1]
    /\ handler' = [handler EXCEPT !.status = IF @ = 0 THEN StatusOK ELSE @]
    /\ UNCHANGED <<cacheVars, selVars, planVars, docs, lastPick>>

\* The stderr goroutine, lines 53-67: a Read that returns n > 0.
DrainerRead ==
    /\ stream.drainer = "reading"
    /\ ~stream.errClosed
    /\ \E n \in 1..stream.errPipe :
         stream' = [stream EXCEPT !.errPipe = @ - n, !.errRead = @ + n]
    /\ UNCHANGED <<cacheVars, selVars, planVars, docs, handler, lastPick>>

\* Lines 68-70: Read returns io.EOF, the pipe being empty and its write end
\* closed by the exit of the process.
DrainerEOF ==
    /\ stream.drainer = "reading"
    /\ ~stream.errClosed
    /\ stream.errPipe = 0
    /\ stream.proc = "exited"
    /\ stream' = [stream EXCEPT !.drainer = "stopped"]
    /\ UNCHANGED <<cacheVars, selVars, planVars, docs, handler, lastPick>>

\* Lines 68-70: Read fails because the read end has been closed; what the
\* pipe still held is not read.
DrainerClosed ==
    /\ stream.drainer = "reading"
    /\ stream.errClosed
    /\ stream' = [stream EXCEPT !.drainer = "stopped"]
    /\ UNCHANGED <<cacheVars, selVars, planVars, docs, handler, lastPick>>

\* Lines 74-78: cmd.Wait() returns once the process has exited and the copy
\* of its stdout has ended; it closes the read end of the stderr pipe.
WaitReturn ==
    /\ stream.pc = "wait"
    /\ stream.proc = "exited"
    /\ stream.outPipe = 0
    /\ stream' = [stream EXCEPT !.pc = "returned",
                                !.err = ~stream.exitOK,
                                !.errClosed = TRUE]
    /\ UNCHANGED <<cacheVars, selVars, planVars, docs, handler, lastPick>>

\* Lines 93-101: StreamVideo has returned; an error is logged.  The server
\* sends the header with status 200 when the handler returns without a Write.
HandlerStreamDone ==
    /\ handler.pc = "stream"
    /\ stream.pc = "returned"
    /\ handler' = [handler EXCEPT !.pc = "end",
                                  !.status = IF @ = 0 THEN StatusOK ELSE @]
    /\ UNCHANGED <<cacheVars, selVars, planVars, docs, stream, lastPick>>

\* The request is over; the next one starts afresh.
HandlerReturn ==
    /\ handler.pc = "end"
    /\ handler' = HandlerIdle
    /\ stream' = StreamIdle
    /\ info' = NoInfo
    /\ quality' = ""
    /\ videos' = <<>>
    /\ audios' = <<>>
    /\ video' = NilFormat
    /\ audio' = NilFormat
    /\ planIn' = NoPlan
    /\ args' = <<>>
    /\ UNCHANGED <<cacheVars, docs, lastPick>>

\* Requests served side by side, up to the selection (main.go lines 54-70),
\* within the lifetime of the entries they share: no time passes, so no age
\* test fails and no delete is reached.
\* A step of GetVideoInfo of request r that runs no prober.
ShareLookup(r) ==
    /\ \/ LoadStep(r)
       \/ CheckStep(r)
       \/ StoreStep(r)
    /\ lastPick' = NoPick
    /\ UNCHANGED <<selVars, planVars, docs, handler, stream>>

\* The prober of request r runs; a document that unmarshals is allocated.
ShareProbe(r) ==
    /\ ProbeStep(r)
    /\ IF res'[r].err = ErrNil
       THEN \E d \in DocSamples : docs' = Append(docs, d)
       ELSE docs' = docs
    /\ lastPick' = NoPick
    /\ UNCHANGED <<selVars, planVars, handler, stream>>

\* GetVideoInfo of request r has returned; on success the handler calls
\* SelectFormats on the *Info it was given.
ShareSelect(r) ==
    /\ pc[r] = "done"
    /\ ReturnStep(r)
    /\ IF res[r].err = ErrNil
       THEN \E q \in {QualityLow, QualityMedium, QualityHigh} :
              LET ptr == res[r].info
                  sel == SelectFormats(docs[ptr], q)
              IN  /\ lastPick' = [req |-> r, ptr |-> ptr, quality |-> q,
                                  video |-> sel.video, audio |-> sel.audio]
                  /\ docs' = [docs EXCEPT ![ptr].Formats =
                                 FormatsAfterSelect(docs[ptr], q)]
       ELSE /\ lastPick' = NoPick
            /\ docs' = docs
    /\ UNCHANGED <<selVars, planVars, handler, stream>>

CacheInit ==
    /\ now = 0
    /\ infoCache = <<>>
    /\ pc = [r \in Reqs |-> "idle"]
    /\ videoURL = [r \in Reqs |-> "u1"]
    /\ entry = [r \in Reqs |-> ZeroEntry]
    /\ res = [r \in Reqs |-> NoRes]
    /\ nfetch = 0
    /\ sweep = SweepIdle
    /\ written = {}
    /\ lastStored = [u \in URLs |-> ZeroEntry]
    /\ dirty = [r \in Reqs |-> FALSE]
    /\ lastProbe = NoProbe

CacheNext ==
    \/ \E r \in Reqs : LoadStep(r)
    \/ \E r \in Reqs : CheckStep(r)
    \/ \E r \in Reqs : DeleteStep(r)
    \/ \E r \in Reqs : ProbeStep(r)
    \/ \E r \in Reqs : StoreStep(r)
    \/ \E r \in Reqs : ReturnStep(r)
    \/ SweepTick
    \/ SweepVisit
    \/ SweepDelete
    \/ Tick

Init == CacheInit /\ SelIdle /\ PlanIdle /\ ServeIdle

Next == CacheNext /\ UNCHANGED <<selVars, planVars, serveVars>>

Spec == Init /\ [][Next]_vars

NextSelect ==
    \/ DecodeFormat /\ UNCHANGED <<cacheVars, planVars, serveVars>>
    \/ SelectStep /\ UNCHANGED <<cacheVars, planVars, serveVars>>

SpecSelect == Init /\ [][NextSelect]_vars

NextPlan == PlanStep /\ UNCHANGED <<cacheVars, selVars, serveVars>>

SpecPlan == Init /\ [][NextPlan]_vars

NextServe ==
    \/ HandlerEnter
    \/ CtxCancel
    \/ ServeLoad
    \/ ServeCheck
    \/ ServeDelete
    \/ ProberStart
    \/ ProberKill
    \/ ServeProbe
    \/ ServeStore
    \/ HandlerInfo
    \/ ServeSelect
    \/ StreamStart
    \/ FfmpegWriteOut
    \/ FfmpegWriteErr
    \/ FfmpegExit
    \/ StreamKill
    \/ Forward
    \/ DrainerRead
    \/ DrainerEOF
    \/ DrainerClosed
    \/ WaitReturn
    \/ HandlerStreamDone
    \/ HandlerReturn
    \/ Tick /\ UNCHANGED <<selVars, planVars, serveVars>>

SpecServe == Init /\ [][NextServe]_vars

NextShare ==
    \/ \E r \in Reqs : ShareLookup(r)
    \/ \E r \in Reqs : ShareProbe(r)
    \/ \E r \in Reqs : ShareSelect(r)

SpecShare == Init /\ [][NextShare]_vars

\* The scheduling that cancellation relies on: a kill that is due is
\* delivered, the calls waiting on a killed process return, the copy of
\* stdout proceeds, and the handler goes on once a call has returned.
ServeFairness ==
    /\ WF_vars(ProberKill)
    /\ WF_vars(ServeProbe /\ handler.prober # "running")
    /\ WF_vars(ServeStore)
    /\ WF_vars(HandlerInfo)
    /\ WF_vars(ServeSelect)
    /\ WF_vars(StreamStart)
    /\ WF_vars(StreamKill)
    /\ WF_vars(Forward)
    /\ WF_vars(WaitReturn)

SpecServeFair == SpecServe /\ ServeFairness

-----------------------------------------------------------------------------
(* Claims about the metadata cache and GetVideoInfo, checked under Spec.   *)

\* C1: a call that answers from the cache (a hit) has not run the prober,
\* and the entry it serves was written by a Store whose timestamp is less
\* than cacheTTL before the moment of the lookup's age test; a lookup at or
\* past that age is a miss.
C1_NoHitPastTTL ==
    \A r \in Reqs :
        (pc[r] = "done" /\ res[r].hit) =>
            /\ ~res[r].probed
            /\ res[r].err = ErrNil
            /\ res[r].at - res[r].ts < cacheTTL
            /\ [key |-> videoURL[r],
                value |-> cachedInfo(res[r].info, res[r].ts)] \in written

\* A hit on an entry that has aged, while another lookup of the same key
\* has found the entry, still in the cache with no delete or sweep since its
\* store, exactly cacheTTL old and treats it as a miss.
C1_Witness ==
    \E r, q \in Reqs :
        /\ pc[r] = "done" /\ res[r].hit /\ res[r].at > res[r].ts
        /\ pc[q] = "delete" /\ videoURL[q] = videoURL[r]
        /\ videoURL[q] \in DOMAIN infoCache
        /\ Since(infoCache[videoURL[q]].timestamp) = cacheTTL

\* C2: a call that ends in an error has run the prober and has executed no
\* Store; unless another call stored the key since this call's lookup, the
\* key is absent from the cache, so the next lookup misses.
C2_FailuresNeverCached ==
    \A r \in Reqs :
        (pc[r] = "done" /\ res[r].err # ErrNil) =>
            /\ res[r].probed
            /\ ~res[r].wrote
            /\ res[r].info = 0
            /\ ~dirty[r] => videoURL[r] \notin DOMAIN infoCache

\* A failed call for a key that had been cached before and is absent now.
C2_Witness ==
    \E r \in Reqs :
        /\ pc[r] = "done" /\ res[r].err = ErrParseFailed
        /\ \E w \in written : w.key = videoURL[r]
        /\ videoURL[r] \notin DOMAIN infoCache

C4_Classification ==
    lastProbe.req # 0 =>
        LET r == lastProbe.req
            o == lastProbe.out
            abnormal == o.kind # "ok"
            signals == /\ o.kind = "exit"
                       /\ \/ Contains(o.stderr, VideoUnavailable)
                          \/ Contains(o.stderr, HTTPError404)
        IN  /\ (abnormal /\ signals) => res[r].err = ErrVideoNotFound
            /\ (abnormal /\ ~signals) => res[r].err = ErrFetchFailed
            /\ (~abnormal /\ ~o.parses) => res[r].err = ErrParseFailed
            /\ (abnormal \/ ~o.parses) => (res[r].info = 0 /\ pc[r] = "done")
            /\ (~abnormal /\ o.parses) => (res[r].err = ErrNil /\ res[r].info # 0)

\* The prober has just exited abnormally reporting a 404 and the call has
\* returned the not-found error.
C4_Witness ==
    /\ lastProbe.req # 0
    /\ lastProbe.out.kind = "exit"
    /\ Contains(lastProbe.out.stderr, HTTPError404)
    /\ res[lastProbe.req].err = ErrVideoNotFound
    /\ pc[lastProbe.req] = "done"

-----------------------------------------------------------------------------
(* Claims about SelectFormats, checked under SpecSelect.                   *)

Selected == quality # ""

FormatSet == { info.Formats[i] : i \in 1..Len(info.Formats) }

\* Video-capable: video codec id not "none" and width > 0.
VideoCapable == { f \in FormatSet : f.VCodec # none /\ f.Width > 0 }

\* Audio-capable: audio codec id not "none".
AudioCapable == { f \in FormatSet : f.ACodec # none }

H264Family(f) == HasPrefix(f.VCodec, avc1)

\* Effective bitrate: the audio bitrate if present, else the total bitrate.
EffectiveRate(f) == IF f.ABR # 0 THEN f.ABR ELSE f.TBR

\* C5: for every metadata and every quality (low, medium, high or an
\* unrecognised one), SelectFormats returns a video iff the metadata has a
\* video-capable format, the video returned is one of those formats, and
\* with no formats at all it returns neither a video nor an audio.
C5_VideoPickIffCapable ==
    Selected =>
        /\ video.ok <=> VideoCapable # {}
        /\ video.ok => video.f \in VideoCapable
        /\ FormatSet = {} => (~video.ok /\ ~audio.ok)

\* An unrecognised quality, a pick, and beside it a format that has a video
\* codec but no width.
C5_Witness ==
    /\ quality = "best"
    /\ video.ok
    /\ \E f \in FormatSet : f.VCodec # none /\ f.Width = 0

\* C6: for quality high the video returned has the greatest height of all
\* video-capable formats, and it has an avc1 codec id whenever some
\* video-capable format of that height has one.
C6_HighTier ==
    (quality = QualityHigh /\ VideoCapable # {}) =>
        /\ video.ok
        /\ \A f \in VideoCapable : f.Height <= video.f.Height
        /\ (\E f \in VideoCapable : f.Height = video.f.Height /\ H264Family(f))
              => H264Family(video.f)

\* The pick is H.264 although a candidate of the same height with another
\* codec has the higher bitrate and comes first in the metadata.
C6_Witness ==
    /\ quality = QualityHigh
    /\ video.ok
    /\ H264Family(video.f)
    /\ \E f \in VideoCapable :
          /\ f.Height = video.f.Height
          /\ ~H264Family(f)
          /\ f.TBR > video.f.TBR
          /\ f.FormatID < video.f.FormatID
    /\ \E f \in VideoCapable : f.Height < video.f.Height

\* The video sort order: height descending, then H.264 first, then total
\* bitrate descending.
VideoBefore(a, b) ==
    \/ a.Height > b.Height
    \/ a.Height = b.Height /\ H264Family(a) /\ ~H264Family(b)
    \/ a.Height = b.Height /\ H264Family(a) = H264Family(b) /\ a.TBR > b.TBR

TargetHeight == IF quality = QualityMedium THEN 720 ELSE 360

\* C7: for quality medium (low) the video returned is at the least distance
\* from height 720 (360) of all video-capable formats, and no candidate at
\* that same distance comes before it in the video sort order.
C7_ClosestWithTieBreak ==
    (quality \in {QualityMedium, QualityLow} /\ VideoCapable # {}) =>
        /\ video.ok
        /\ \A f \in VideoCapable :
              /\ abs(video.f.Height - TargetHeight) <= abs(f.Height - TargetHeight)
              /\ abs(video.f.Height - TargetHeight) = abs(f.Height - TargetHeight)
                    => ~VideoBefore(f, video.f)

AudioOnly(f) == f.VCodec = none
NonSegmented(f) == HasPrefix(f.Protocol, http) /\ ~Contains(f.Protocol, m3u8)

\* The audio ranking: audio-only before muxed, then non-segmented before
\* segmented delivery, then the higher effective bitrate.
AudioOutranks(a, b) ==
    \/ AudioOnly(a) /\ ~AudioOnly(b)
    \/ AudioOnly(a) = AudioOnly(b) /\ NonSegmented(a) /\ ~NonSegmented(b)
    \/ /\ AudioOnly(a) = AudioOnly(b)
       /\ NonSegmented(a) = NonSegmented(b)
       /\ EffectiveRate(a) > EffectiveRate(b)

\* C8: for quality high or medium the audio returned is the top of the audio
\* ranking: an audio-capable format that no audio-capable format outranks.
C8_AudioTopOfRanking ==
    (quality \in {QualityHigh, QualityMedium} /\ AudioCapable # {}) =>
        /\ audio.ok
        /\ audio.f \in AudioCapable
        /\ \A f \in AudioCapable : ~AudioOutranks(f, audio.f)

\* C9: for quality low the audio returned has the lowest effective bitrate
\* of all audio-capable formats.
C9_LowAudioLowestRate ==
    (quality = QualityLow /\ AudioCapable # {}) =>
        /\ audio.ok
        /\ audio.f \in AudioCapable
        /\ \A f \in AudioCapable : EffectiveRate(audio.f) <= EffectiveRate(f)

-----------------------------------------------------------------------------
(* Claims about buildFfmpegArgs, checked under SpecPlan.                   *)

Planned == args # <<>>

\* The places of a flag in the plan.
Places(flag) == { i \in 1..Len(args) : args[i] = Lit(flag) }

\* The arguments that follow the flag at place i, n of them.
After(i, n) == SubSeq(args, i + 1, i + n)

H26xSignature(codec) ==
    \E sig \in {avc1, h264, hevc, hvc1, hev1, h265} : Contains(ToLower(codec), sig)

AacSignature(codec) ==
    \E sig \in {mp4a, aac} : Contains(ToLower(codec), sig)

\* C10: every plan has exactly one -c:v and one -c:a directive; -c:v is
\* "copy" exactly when the video codec id contains, in any letter case, one
\* of avc1, h264, hevc, hvc1, hev1, h265, and otherwise libx264 with preset
\* ultrafast and a keyframe interval fixed at 60; -c:a is "copy" exactly when
\* the audio codec id contains, in any letter case, mp4a or aac, and
\* otherwise aac.
C10_CodecDirectives ==
    Planned =>
        /\ Cardinality(Places("-c:v")) = 1
        /\ Cardinality(Places("-c:a")) = 1
        /\ \A i \in Places("-c:v") :
              IF H26xSignature(planIn.vCodec)
              THEN /\ After(i, 1) = <<Lit("copy")>>
                   /\ Places("-preset") = {}
                   /\ Places("-g") = {}
              ELSE After(i, 9) = <<Lit("libx264"), Lit("-preset"),
                                   Lit("ultrafast"), Lit("-g"), Lit("60"),
                                   Lit("-keyint_min"), Lit("60"),
                                   Lit("-sc_threshold"), Lit("0")>>
        /\ \A i \in Places("-c:a") :
              IF AacSignature(planIn.aCodec)
              THEN After(i, 1) = <<Lit("copy")>>
              ELSE After(i, 1) = <<Lit("aac")>>

\* An upper-case H.264 codec id is passed through while a non-AAC audio is
\* re-encoded.
C10_Witness ==
    /\ Planned
    /\ planIn.vCodec = <<"A", "V", "C", "1", ".", "4", "D">>
    /\ planIn.aCodec = <<"o", "p", "u", "s">>
    /\ \E i \in Places("-c:v") : After(i, 1) = <<Lit("copy")>>
    /\ \E i \in Places("-c:a") : After(i, 1) = <<Lit("aac")>>

\* The places of the header parameters strictly between two places.
HeaderPlaces(lo, hi) ==
    { p \in Places("-user_agent") \cup Places("-headers") : lo < p /\ p < hi }

\* Every entry of a header map is carried by a header parameter between the
\* two places: a User-Agent by -user_agent, any other as a CRLF-ended line of
\* a -headers parameter; an empty map puts nothing there.
HeadersCarried(headers, lo, hi) ==
    /\ headers = <<>> => HeaderPlaces(lo, hi) = {}
    /\ \A j \in 1..Len(headers) :
          IF EqualFold(headers[j].k, UserAgent)
          THEN \E p \in HeaderPlaces(lo, hi) :
                  args[p] = Lit("-user_agent") /\ args[p + 1] = headers[j].v
          ELSE \E p \in HeaderPlaces(lo, hi) :
                  /\ args[p] = Lit("-headers")
                  /\ Contains(args[p + 1],
                              headers[j].k \o Lit(": ") \o headers[j].v
                                \o Lit("\r\n"))

\* C11: the plan has a second -i exactly when the audio URL is not empty and
\* differs from the video URL, and then maps 0:v:0 and 1:a:0; otherwise it
\* has one -i and maps 0:v:0 and the optional 0:a:0?.  The header parameters
\* of an input stand before its -i (those of the audio input after the
\* video's -i), none follows the last -i, and the plan ends with
\* -f mp4 -movflags frag_keyframe+empty_moov pipe:1.
C11_InputsAndMapping ==
    Planned =>
        LET sep == planIn.audioURL # <<>> /\ planIn.audioURL # planIn.videoURL
            ins == Places("-i")
            maps == Places("-map")
            i1 == CHOOSE i \in ins : \A k \in ins : i <= k
            i2 == CHOOSE i \in ins : \A k \in ins : k <= i
            m1 == CHOOSE i \in maps : \A k \in maps : i <= k
            m2 == CHOOSE i \in maps : \A k \in maps : k <= i
            n == Len(args)
        IN  /\ Cardinality(ins) = (IF sep THEN 2 ELSE 1)
            /\ args[i1 + 1] = planIn.videoURL
            /\ sep => args[i2 + 1] = planIn.audioURL
            /\ Cardinality(maps) = 2
            /\ i2 < m1
            /\ args[m1 + 1] = Lit("0:v:0")
            /\ args[m2 + 1] = (IF sep THEN Lit("1:a:0") ELSE Lit("0:a:0?"))
            /\ HeadersCarried(planIn.videoHeaders, 0, i1)
            /\ sep => HeadersCarried(planIn.audioHeaders, i1, i2)
            /\ HeaderPlaces(i2, n + 1) = {}
            /\ SubSeq(args, n - 4, n) =
                 <<Lit("-f"), Lit("mp4"), Lit("-movflags"),
                   Lit("frag_keyframe+empty_moov"), Lit("pipe:1")>>

\* An audio URL equal to the video URL, with headers on both: one input,
\* the optional audio mapping, the video's headers before the input.
C11_Witness ==
    /\ Planned
    /\ planIn.audioURL = planIn.videoURL
    /\ Len(planIn.videoHeaders) = 3
    /\ planIn.audioHeaders # <<>>
    /\ Cardinality(Places("-i")) = 1
    /\ Places("-user_agent") # {}
    /\ \E m \in Places("-map") : args[m + 1] = Lit("0:a:0?")

-----------------------------------------------------------------------------
(* Claims about videoHandler and StreamVideo, checked under SpecServe.     *)

\* The pipeline of the request has exited with a non-zero status and
\* StreamVideo has returned.
PipelineFailed ==
    /\ stream.pc = "returned"
    /\ stream.proc = "exited"
    /\ ~stream.exitOK

\* C12: when the request ends after ffmpeg has exited non-zero, the status
\* is 500 if no chunk had been forwarded to the client, and 200 with a
\* truncated body (the failure only logged) if at least one had.
C12_StreamFailureStatus ==
    (handler.pc = "end" /\ PipelineFailed) =>
        IF stream.forwarded = 0
        THEN handler.status = StatusInternalServerError
        ELSE handler.status = StatusOK

\* What the prober's outcome of the request was.
ProberUnavailable ==
    /\ handler.out.kind = "exit"
    /\ \/ Contains(handler.out.stderr, VideoUnavailable)
       \/ Contains(handler.out.stderr, HTTPError404)

ProberFailedOtherwise ==
    /\ ~ProberUnavailable
    /\ \/ handler.out.kind \in {"exit", "other"}
       \/ handler.out.kind = "ok" /\ ~handler.out.parses

\* C13: a request that has ended has status 400 and has run no process if
\* it had no url; status 404 if its prober reported the video unavailable;
\* status 500 after any other failure of the prober or of the parse; status
\* 404 if its metadata has no video-capable format; and in all four cases it
\* has spawned no ffmpeg.
C13_OutcomeMapping ==
    handler.pc = "end" =>
        /\ handler.url = "" =>
              /\ handler.status = StatusBadRequest
              /\ handler.nProber = 0
              /\ handler.nPipeline = 0
        /\ ProberUnavailable =>
              (handler.status = StatusNotFound /\ handler.nPipeline = 0)
        /\ ProberFailedOtherwise =>
              (handler.status = StatusInternalServerError
                 /\ handler.nPipeline = 0)
        /\ (handler.info # 0 /\ VideoCapable = {}) =>
              (handler.status = StatusNotFound /\ handler.nPipeline = 0)

\* A request served from the cache whose metadata has audio formats only:
\* not found, nothing spawned.
C13_Witness ==
    /\ handler.pc = "end"
    /\ handler.info # 0
    /\ handler.nProber = 0
    /\ FormatSet # {}
    /\ VideoCapable = {}
    /\ handler.status = StatusNotFound

\* C14: under SpecServeFair.  Once the context is cancelled while yt-dlp
\* runs, GetVideoInfo returns; once it is cancelled while ffmpeg runs, the
\* process ends and StreamVideo returns; and from the cancellation on the
\* request starts no yt-dlp and no ffmpeg and the count of chunks forwarded
\* to the client never goes down.
C14_CancelTerminates ==
    /\ (handler.cancelled /\ handler.prober = "running")
          ~> (handler.prober = "exited" /\ pc[H] = "done")
    /\ (handler.cancelled /\ stream.proc = "running")
          ~> (stream.proc = "exited" /\ stream.pc = "returned")
    /\ [][(handler.cancelled /\ handler'.cancelled) =>
            /\ handler'.nProber = handler.nProber
            /\ handler'.nPipeline = handler.nPipeline
            /\ stream'.forwarded >= stream.forwarded]_vars

\* ffmpeg was killed after a chunk had reached the client, and StreamVideo
\* has returned its error.
C14_Witness ==
    /\ handler.cancelled
    /\ stream.killed
    /\ stream.pc = "returned"
    /\ stream.err
    /\ stream.forwarded > 0
    /\ handler.nPipeline = 1

\* StreamVideo has returned after ffmpeg had been started.
ReturnedAfterStart == stream.pc = "returned" /\ stream.proc # "none"

\* C16: when StreamVideo has returned after starting ffmpeg, every chunk
\* ffmpeg wrote to stdout has been forwarded to the client, every chunk it
\* wrote to stderr has been read by the stderr goroutine, and that goroutine
\* has stopped.
C16_ReadersJoined ==
    ReturnedAfterStart =>
        /\ stream.forwarded = stream.outWritten
        /\ stream.errRead = stream.errWritten
        /\ stream.drainer = "stopped"

-----------------------------------------------------------------------------
(* Further claims about the cache, checked under Spec.                     *)

\* No call of GetVideoInfo is under way, and the sweep is not between the age
\* test of a visited entry and its delete.
NoDeletePending ==
    /\ \A r \in Reqs : pc[r] \in {"idle", "done"}
    /\ sweep.del = {}

\* C15: once every lookup has finished and the sweep has no delete still to
\* come, the entry of the latest Store on a key is in the cache as long as it
\* is younger than cacheTTL.
C15_FreshEntryStays ==
    NoDeletePending =>
        \A u \in URLs :
            (lastStored[u] # ZeroEntry /\ Since(lastStored[u].timestamp) < cacheTTL)
                => (u \in DOMAIN infoCache /\ infoCache[u] = lastStored[u])

-----------------------------------------------------------------------------
(* Further claims about SelectFormats, checked under SpecSelect.           *)

\* C17: for quality high the video returned has the greatest total bitrate
\* of the video-capable formats that share its height and its being avc1 or
\* not, whatever the size of the difference, and the comparison function of
\* the video sort never ranks a before b, b before or level with c, and yet
\* c before or level with a.
C17_BitrateDescending ==
    (quality = QualityHigh /\ video.ok) =>
        /\ \A f \in VideoCapable :
              (f.Height = video.f.Height /\ H264Family(f) = H264Family(video.f))
                 => f.TBR <= video.f.TBR
        /\ \A a, b, c \in VideoCapable :
              (CmpVideo(a, b) < 0 /\ CmpVideo(b, c) <= 0) => CmpVideo(a, c) < 0

\* C18: SelectFormats returns no audio exactly when the metadata has no
\* audio-capable format and the video returned, if any, has audio codec
\* "none"; with no audio-capable format and a video that carries audio the
\* audio returned is that video; and with an audio-capable format the audio
\* returned is one of the audio-capable formats.
C18_AudioFallback ==
    Selected =>
        /\ ~audio.ok <=> (AudioCapable = {}
                            /\ (~video.ok \/ video.f.ACodec = none))
        /\ (AudioCapable = {} /\ video.ok /\ video.f.ACodec # none)
              => audio = video
        /\ AudioCapable # {} => (audio.ok /\ audio.f \in AudioCapable)

\* Video-only formats and nothing else: a video is returned, no audio.
C18_Witness ==
    /\ Selected
    /\ Len(info.Formats) >= 2
    /\ AudioCapable = {}
    /\ video.ok
    /\ video.f.ACodec = none
    /\ ~audio.ok

-----------------------------------------------------------------------------
(* Claim about requests that share metadata, checked under SpecShare.      *)

\* The document as the prober's output gave it.
Original(p) == CHOOSE d \in DocSamples : d.ID = docs[p].ID

====
